---- MODULE Spec2Model ----
(***************************************************************************)
(* The probe truth table of policy-assistant (package probe): Item, Table, *)
(* the default-connectivity constructor, the SetIngress / SetEgress        *)
(* mutators with the partial combination rule setCombined, AddJobResult,   *)
(* NewTableFromJobResults and the render dispatch of renderTableHelper.    *)
(*                                                                         *)
(* Go pointers are modelled by a heap: a *Connectivity is an address into  *)
(* the sequence `heap`, Nil is the nil pointer.  A JobResult is stored by  *)
(* value in its cell; every JobResult of a table is a distinct object      *)
(* (the constructors allocate one per key).                                *)
(*                                                                         *)
(* Further specifications: the text the renders hand to the matrix, the    *)
(* map iteration order being an input (SpecRender); connectivity.Result    *)
(* with Passed and ResultsByProtocol over its steps (SpecResult);          *)
(* matcher.Traffic with formatPeer and PrettyString (SpecTraffic);         *)
(* SetIngress / SetEgress calls of several goroutines interleaved          *)
(* statement by statement (SpecWriters); and the resolution of workload    *)
(* strings by TrafficPeer.Translate and GetInternalPeerInfo against a      *)
(* cluster given as data (SpecTranslate).                                  *)
(***************************************************************************)
EXTENDS Integers, Sequences, FiniteSets, TLC

VARIABLES resources, built, table, heap, status, calls, last,
          out, result, traffic, writers, cluster

vars == <<resources, built, table, heap, status, calls, last,
          out, result, traffic, writers, cluster>>

\* out is what the last call returned; result, traffic, writers and cluster are the
\* connectivity.Result, the matcher.Traffic, the concurrent writers and the
\* Kubernetes cluster of the specifications that have one
NoOutput == <<>>

NoResult == <<>>

NoTraffic == <<>>

NoWriters == <<>>

NoCluster == <<>>

(* ------------------------------ bounds -------------------------------- *)

\* the number of mutating calls (SetIngress, SetEgress, AddJobResult) explored
MaxCalls == 2

(* ------------------------- Connectivity values ------------------------ *)

ConnectivityBlocked == "blocked"

ConnectivityAllowed == "allowed"

ConnectivityUndefined == "undefined"

\* the value of a Connectivity field that a struct literal leaves out: Connectivity
\* is a string type, so the zero value is the empty string, none of the three above
ZeroConnectivity == ""

Connectivity == {ConnectivityAllowed, ConnectivityBlocked, ConnectivityUndefined}

\* the nil *Connectivity
Nil == 0

(* ------------------------------ helpers ------------------------------- *)

Range(s) == {s[i] : i \in 1..Len(s)}

\* Go's string order on the strings the model uses (pod names, keys, label keys)
Lexical ==
    <<"TCP/80", "TCP/81", "TCP/9999", "UDP/80", "UDP/81", "UDP/9999", "a", "app", "b", "c",
      "pod">>

LexRank(s) == CHOOSE i \in 1..Len(Lexical) : Lexical[i] = s

\* slice.Sort: the elements of a duplicate-free list in ascending string order
RECURSIVE SortSet(_)
SortSet(S) ==
    IF S = {} THEN <<>>
    ELSE LET m == CHOOSE x \in S : \A y \in S : LexRank(x) <= LexRank(y)
         IN <<m>> \o SortSet(S \ {m})

SortedPodNames(r) == SortSet(Range(r.pods))

\* fmt.Sprintf("%s/%d", proto, port)
Key(proto, port) == proto \o "/" \o ToString(port)

(* --------------------------- generic matrix --------------------------- *)

\* an N x N matrix over the items, the factory f called once per ordered pair
NewTruthTableFromItems(items, f) ==
    [items |-> items,
     cells |-> [p \in Range(items) \X Range(items) |-> f[p]]]

\* row-major over the construction order
Keys(t) ==
    LET n == Len(t.items)
    IN [k \in 1..(n * n) |->
          [From |-> t.items[((k - 1) \div n) + 1], To |-> t.items[((k - 1) % n) + 1]]]

Get(t, from, to) == t.cells[<<from, to>>]

(* ------------------------------ setCombined --------------------------- *)

setCombinedNoVeto(jr, h) ==
    IF h[jr.Ingress] = ConnectivityAllowed /\ h[jr.Egress] = ConnectivityAllowed
    THEN [jr EXCEPT !.Combined = ConnectivityAllowed]
    ELSE jr

setCombinedNoAllow(jr, h) ==
    IF h[jr.Ingress] = ConnectivityBlocked \/ h[jr.Egress] = ConnectivityBlocked
    THEN [jr EXCEPT !.Combined = ConnectivityBlocked]
    ELSE jr

setCombinedTotal(jr, h) ==
    IF h[jr.Ingress] = ConnectivityBlocked \/ h[jr.Egress] = ConnectivityBlocked
    THEN [jr EXCEPT !.Combined = ConnectivityBlocked]
    ELSE IF h[jr.Ingress] = ConnectivityAllowed /\ h[jr.Egress] = ConnectivityAllowed
         THEN [jr EXCEPT !.Combined = ConnectivityAllowed]
         ELSE [jr EXCEPT !.Combined = ConnectivityUndefined]

setCombined(jr, h) ==
    LET jr1 == IF h[jr.Ingress] = ConnectivityBlocked \/ h[jr.Egress] = ConnectivityBlocked
               THEN [jr EXCEPT !.Combined = ConnectivityBlocked]
               ELSE jr
    IN IF h[jr1.Ingress] = ConnectivityAllowed /\ h[jr1.Egress] = ConnectivityAllowed
       THEN [jr1 EXCEPT !.Combined = ConnectivityAllowed]
       ELSE jr1

(* ------------------- NewTableWithDefaultConnectivity ------------------ *)

\* &ingress and &egress: the two parameters, one address each for the whole table
IngressAddr == 1

EgressAddr == 2

\* the address of the local c of the self-pair job result (fr, fr, proto, port)
SelfAddr(r, fr, pi, qi) ==
    LET pods == SortedPodNames(r)
        i == CHOOSE n \in 1..Len(pods) : pods[n] = fr
    IN 2 + (i - 1) * Len(r.protocols) * Len(r.ports) + (pi - 1) * Len(r.ports) + qi

DefaultHeap(r, ingress, egress) ==
    <<ingress, egress>> \o
    [n \in 1..(Len(r.pods) * Len(r.protocols) * Len(r.ports)) |-> ConnectivityUndefined]

DefaultJobResultNoSelf(r, h, fr, to, pi, qi) ==
    setCombined([Job |-> [FromKey |-> fr, ToKey |-> to, ResolvedPort |-> r.ports[qi],
                          ResolvedPortName |-> "", Protocol |-> r.protocols[pi],
                          TimeoutSeconds |-> 3],
                 Ingress |-> IngressAddr, Egress |-> EgressAddr,
                 Combined |-> ZeroConnectivity], h)

DefaultJobResult(r, h, fr, to, pi, qi) ==
    LET jr == [Job |-> [FromKey |-> fr, ToKey |-> to, ResolvedPort |-> r.ports[qi],
                        ResolvedPortName |-> "", Protocol |-> r.protocols[pi],
                        TimeoutSeconds |-> 3],
               Ingress |-> IngressAddr, Egress |-> EgressAddr,
               Combined |-> ZeroConnectivity]
        jr1 == IF fr = to
               THEN [jr EXCEPT !.Ingress = SelfAddr(r, fr, pi, qi),
                               !.Egress = SelfAddr(r, fr, pi, qi)]
               ELSE jr
    IN setCombined(jr1, h)

DefaultItem(r, h, fr, to) ==
    LET idx == (1..Len(r.protocols)) \X (1..Len(r.ports))
        keys == {Key(r.protocols[x[1]], r.ports[x[2]]) : x \in idx}
    IN [From |-> fr, To |-> to,
        JobResults |->
          [k \in keys |->
             LET x == CHOOSE y \in idx : Key(r.protocols[y[1]], r.ports[y[2]]) = k
             IN DefaultJobResult(r, h, fr, to, x[1], x[2])]]

NewTableWithDefaultConnectivity(r, ingress, egress) ==
    LET h == DefaultHeap(r, ingress, egress)
        f == [p \in Range(r.pods) \X Range(r.pods) |-> DefaultItem(r, h, p[1], p[2])]
    IN [Wrapped |-> NewTruthTableFromItems(SortedPodNames(r), f), heap |-> h]

(* --------------------------- SetEgress / SetIngress ------------------- *)

\* the record of the most recent call: what was called, on what, with which value
\* (kept for the calls that succeed), how it ended, and the addressed job result's
\* values before it
Call(op, from, to, key, v, outcome, before) ==
    [op |-> op, from |-> from, to |-> to, key |-> key, v |-> v,
     outcome |-> outcome, before |-> before]

NoCall == Call("none", "", "", "", "", "ok", <<>>)

\* the (Ingress, Egress, Combined) values of a job result whose legs are set
Values(jr, h) == <<h[jr.Ingress], h[jr.Egress], jr.Combined>>

PutJobResult(t, from, to, k, jr) ==
    [t EXCEPT !.cells[<<from, to>>].JobResults[k] = jr]

Invalid(t, from, to, portProto) ==
    LET dict == Get(t, from, to).JobResults
    IN \/ portProto \notin DOMAIN dict
       \/ dict[portProto].Ingress = Nil
       \/ dict[portProto].Egress = Nil

SetEgressThroughPointer(egress, from, to, port, proto) ==
    LET portProto == Key(proto, port)
    IN /\ status = "running"
       /\ calls < MaxCalls
       /\ calls' = calls + 1
       /\ UNCHANGED <<resources, built, out, result, traffic, writers, cluster>>
       /\ IF Invalid(table, from, to, portProto)
          THEN /\ status' = "panicked"
               /\ last' = Call("SetEgress", from, to, portProto, "", "panic", <<>>)
               /\ UNCHANGED <<table, heap>>
          ELSE LET jr == Get(table, from, to).JobResults[portProto]
                   h1 == [heap EXCEPT ![jr.Egress] = egress]
               IN /\ heap' = h1
                  /\ table' = PutJobResult(table, from, to, portProto, setCombined(jr, h1))
                  /\ last' = Call("SetEgress", from, to, portProto, egress, "ok",
                                  Values(jr, heap))
                  /\ UNCHANGED status

SetEgressNoNilCheck(egress, from, to, port, proto) ==
    LET portProto == Key(proto, port)
        dict == Get(table, from, to).JobResults
    IN /\ status = "running"
       /\ calls < MaxCalls
       /\ calls' = calls + 1
       /\ UNCHANGED <<resources, built, out, result, traffic, writers, cluster>>
       /\ IF portProto \notin DOMAIN dict
          THEN /\ status' = "panicked"
               /\ last' = Call("SetEgress", from, to, portProto, "", "panic", <<>>)
               /\ UNCHANGED <<table, heap>>
          ELSE LET jr == dict[portProto]
                   h1 == Append(heap, egress)
                   jr1 == [jr EXCEPT !.Egress = Len(h1)]
               IN /\ heap' = h1
                  /\ IF jr1.Ingress = Nil
                     THEN /\ table' = PutJobResult(table, from, to, portProto, jr1)
                          /\ status' = "panicked"
                          /\ last' = Call("SetEgress", from, to, portProto, "",
                                          "panic", <<>>)
                     ELSE /\ table' = PutJobResult(table, from, to, portProto,
                                                   setCombined(jr1, h1))
                          /\ last' = Call("SetEgress", from, to, portProto, egress, "ok",
                                          Values(jr, heap))
                          /\ UNCHANGED status

SetEgress(egress, from, to, port, proto) ==
    LET portProto == Key(proto, port)
    IN /\ status = "running"
       /\ calls < MaxCalls
       /\ calls' = calls + 1
       /\ UNCHANGED <<resources, built, out, result, traffic, writers, cluster>>
       /\ IF Invalid(table, from, to, portProto)
          THEN /\ status' = "panicked"
               /\ last' = Call("SetEgress", from, to, portProto, "", "panic", <<>>)
               /\ UNCHANGED <<table, heap>>
          ELSE LET jr == Get(table, from, to).JobResults[portProto]
                   h1 == Append(heap, egress)
                   jr1 == [jr EXCEPT !.Egress = Len(h1)]
               IN /\ heap' = h1
                  /\ table' = PutJobResult(table, from, to, portProto, setCombined(jr1, h1))
                  /\ last' = Call("SetEgress", from, to, portProto, egress, "ok",
                                  Values(jr, heap))
                  /\ UNCHANGED status

SetIngressCreates(ingress, from, to, port, proto) ==
    LET portProto == Key(proto, port)
        dict == Get(table, from, to).JobResults
    IN /\ status = "running"
       /\ calls < MaxCalls
       /\ calls' = calls + 1
       /\ UNCHANGED <<resources, built, out, result, traffic, writers, cluster>>
       /\ LET h1 == Append(heap, ingress)
              jr == IF portProto \in DOMAIN dict
                    THEN dict[portProto]
                    ELSE [Job |-> [FromKey |-> from, ToKey |-> to, ResolvedPort |-> port,
                                   ResolvedPortName |-> "", Protocol |-> proto,
                                   TimeoutSeconds |-> 3],
                          Ingress |-> Len(h1), Egress |-> Len(h1),
                          Combined |-> ZeroConnectivity]
              jr1 == [jr EXCEPT !.Ingress = Len(h1)]
              d1 == [k \in (DOMAIN dict) \cup {portProto} |->
                       IF k = portProto THEN setCombined(jr1, h1) ELSE dict[k]]
          IN /\ heap' = h1
             /\ table' = [table EXCEPT !.cells[<<from, to>>].JobResults = d1]
             /\ last' = Call("SetIngress", from, to, portProto, ingress, "ok", <<>>)
             /\ UNCHANGED status

SetIngress(ingress, from, to, port, proto) ==
    LET portProto == Key(proto, port)
    IN /\ status = "running"
       /\ calls < MaxCalls
       /\ calls' = calls + 1
       /\ UNCHANGED <<resources, built, out, result, traffic, writers, cluster>>
       /\ IF Invalid(table, from, to, portProto)
          THEN /\ status' = "panicked"
               /\ last' = Call("SetIngress", from, to, portProto, "", "panic", <<>>)
               /\ UNCHANGED <<table, heap>>
          ELSE LET jr == Get(table, from, to).JobResults[portProto]
                   h1 == Append(heap, ingress)
                   jr1 == [jr EXCEPT !.Ingress = Len(h1)]
               IN /\ heap' = h1
                  /\ table' = PutJobResult(table, from, to, portProto, setCombined(jr1, h1))
                  /\ last' = Call("SetIngress", from, to, portProto, ingress, "ok",
                                  Values(jr, heap))
                  /\ UNCHANGED status

\* what a SetIngress / SetEgress call that does not panic does to the job result
\* it addresses: the job result and the heap after the call
SetLeg(jr, h, op, v) ==
    LET h1 == Append(h, v)
        jr1 == IF op = "SetIngress"
               THEN [jr EXCEPT !.Ingress = Len(h1)]
               ELSE [jr EXCEPT !.Egress = Len(h1)]
    IN [jr |-> setCombined(jr1, h1), heap |-> h1]

(* ------------------- Item.AddJobResult / NewTable --------------------- *)

\* JobResult.Key: the "<protocol>/<port>" key of the job
JobResultKey(jr) == Key(jr.Job.Protocol, jr.Job.ResolvedPort)

AddJobResultOverwrite(p, jr) ==
    [item |-> [p EXCEPT !.JobResults =
                 [k \in (DOMAIN p.JobResults) \cup {JobResultKey(jr)} |->
                    IF k = JobResultKey(jr) THEN jr ELSE p.JobResults[k]]],
     err |-> FALSE]

\* the item after the call and whether an error is returned
AddJobResult(p, jr) ==
    IF JobResultKey(jr) \in DOMAIN p.JobResults
    THEN [item |-> p, err |-> TRUE]
    ELSE [item |-> [p EXCEPT !.JobResults =
                      [k \in (DOMAIN p.JobResults) \cup {JobResultKey(jr)} |->
                         IF k = JobResultKey(jr) THEN jr ELSE p.JobResults[k]]],
          err |-> FALSE]

EmptyItem(fr, to) == [From |-> fr, To |-> to, JobResults |-> <<>>]

NewTable(items) ==
    NewTruthTableFromItems(items,
                           [p \in Range(items) \X Range(items) |-> EmptyItem(p[1], p[2])])

\* a job result handed in by a caller: its legs are values, or "nil" for a nil
\* pointer; Materialise gives it its place in the heap
Materialise(in, h) ==
    LET h1 == IF in.Ingress = "nil" THEN h ELSE Append(h, in.Ingress)
        h2 == IF in.Egress = "nil" THEN h1 ELSE Append(h1, in.Egress)
    IN [jr |-> [Job |-> in.Job,
                Ingress |-> IF in.Ingress = "nil" THEN Nil ELSE Len(h1),
                Egress |-> IF in.Egress = "nil" THEN Nil ELSE Len(h2),
                Combined |-> in.Combined],
        heap |-> h2]

\* utils.DoOrDie: the process dies when the error is not nil
DoOrDie(err) == IF err THEN "fatal" ELSE "running"

RECURSIVE AddAll(_, _, _, _)
AddAll(t, h, jobResults, i) ==
    IF i > Len(jobResults)
    THEN [table |-> t, heap |-> h, status |-> "running", added |-> Len(jobResults)]
    ELSE LET m == Materialise(jobResults[i], h)
             fr == m.jr.Job.FromKey
             to == m.jr.Job.ToKey
             r == AddJobResult(Get(t, fr, to), m.jr)
         IN IF DoOrDie(r.err) = "fatal"
            THEN [table |-> t, heap |-> h, status |-> "fatal", added |-> i - 1]
            ELSE AddAll([t EXCEPT !.cells[<<fr, to>>] = r.item], m.heap, jobResults, i + 1)

NewTableFromJobResults(r, jobResults) ==
    AddAll(NewTable(SortedPodNames(r)), <<>>, jobResults, 1)

(* --------------------------- render dispatch -------------------------- *)

\* strings.Join
RECURSIVE Join(_, _)
Join(strs, sep) ==
    IF Len(strs) = 0 THEN ""
    ELSE IF Len(strs) = 1 THEN strs[1]
    ELSE strs[1] \o sep \o Join(Tail(strs), sep)

\* the scan of renderTableHelper from cell i on, schema holding the joined keys seen
RECURSIVE Scan(_, _, _)
Scan(t, i, schema) ==
    IF i > Len(Keys(t))
    THEN [isSchemaUniform |-> TRUE, isSingleElement |-> TRUE]
    ELSE LET dict == Get(t, Keys(t)[i].From, Keys(t)[i].To).JobResults
         IN IF Cardinality(DOMAIN dict) # 1
            THEN [isSchemaUniform |-> TRUE, isSingleElement |-> FALSE]
            ELSE LET keys == SortSet(DOMAIN dict)
                     schema1 == schema \cup {Join(keys, "_")}
                 IN IF Cardinality(schema1) > 1
                    THEN [isSchemaUniform |-> FALSE, isSingleElement |-> TRUE]
                    ELSE Scan(t, i + 1, schema1)

\* the render renderTableHelper hands the table to
renderTableHelperNoSingle(t) ==
    LET f == Scan(t, 1, {})
    IN IF f.isSchemaUniform THEN "simple" ELSE "nonuniform"

renderTableHelper(t) ==
    LET f == Scan(t, 1, {})
    IN IF f.isSchemaUniform /\ f.isSingleElement THEN "simple"
       ELSE IF f.isSchemaUniform THEN "uniformMulti"
       ELSE "nonuniform"

\* renderUniformMultiTable looks the first cell's keys up in every cell; a cell
\* without one of them hands a nil *JobResult to the value getter, which reads a
\* field of it.  (What ShortString does with a value is not part of this model.)
RenderHitsNil(t, mode) ==
    /\ mode = "uniformMulti"
    /\ LET first == Get(t, Keys(t)[1].From, Keys(t)[1].To)
       IN \E p \in DOMAIN t.cells :
             ~(DOMAIN first.JobResults \subseteq DOMAIN t.cells[p].JobResults)

\* a panic inside a getter, in place of the text it would have returned
Panic == "<panic>"

\* Connectivity.ShortString: one symbol per value; a value that is none of the three
\* is not rendered
ShortString(c) ==
    CASE c = ConnectivityAllowed -> "."
      [] c = ConnectivityBlocked -> "X"
      [] c = ConnectivityUndefined -> "#"
      [] OTHER -> Panic

\* the nil *JobResult
NilJobResult == [nil |-> TRUE]

\* dict[k] of a map[string]*JobResult: nil when the key is absent
Lookup(dict, k) == IF k \in DOMAIN dict THEN dict[k] ELSE NilJobResult

\* getCombined, getIngress, getEgress: a nil job result or a nil leg is dereferenced
getValue(which, jr, h) ==
    IF jr = NilJobResult THEN Panic
    ELSE IF which = "RenderTable" THEN ShortString(jr.Combined)
    ELSE IF which = "RenderIngress"
         THEN IF jr.Ingress = Nil THEN Panic ELSE ShortString(h[jr.Ingress])
         ELSE IF jr.Egress = Nil THEN Panic ELSE ShortString(h[jr.Egress])

\* the orders in which a range over a map with these keys can meet them
IterationOrders(S) ==
    {o \in [1..Cardinality(S) -> S] : \A i, j \in 1..Cardinality(S) : o[i] = o[j] => i = j}

AllKeys(t) == UNION {DOMAIN t.cells[p].JobResults : p \in DOMAIN t.cells}

\* maps.Keys(dict) when the map iteration follows order
MapsKeys(dict, order) == SelectSeq(order, LAMBDA k : k \in DOMAIN dict)

\* slice.Sort of a list of distinct keys
SliceSort(keys) == SortSet(Range(keys))

\* the lines of a cell joined, or the panic of the first getter that panicked
JoinLines(lines, sep) ==
    IF \E i \in 1..Len(lines) : lines[i] = Panic THEN Panic ELSE Join(lines, sep)

\* what is handed to Wrapped.Table: the schema, the multiline flag and the text
\* the formatter returns for every cell
renderSimpleTable(t, h, which, order) ==
    [schema |-> "", multiline |-> FALSE,
     cells |-> [p \in DOMAIN t.cells |->
                  LET dict == t.cells[p].JobResults
                      met == MapsKeys(dict, order)
                      v == IF Len(met) = 0 THEN NilJobResult ELSE dict[met[1]]
                  IN getValue(which, v, h)]]

renderUniformMultiTable(t, h, which, order) ==
    LET key == Keys(t)[1]
        first == Get(t, key.From, key.To)
        keys == SliceSort(MapsKeys(first.JobResults, order))
    IN [schema |-> Join(keys, "\n"), multiline |-> TRUE,
        cells |-> [p \in DOMAIN t.cells |->
                     LET dict == t.cells[p].JobResults
                     IN JoinLines([i \in 1..Len(keys) |->
                                     getValue(which, Lookup(dict, keys[i]), h)], " ")]]

renderNonuniformTableUnsorted(t, h, which, order) ==
    [schema |-> "", multiline |-> TRUE,
     cells |-> [p \in DOMAIN t.cells |->
                  LET dict == t.cells[p].JobResults
                      keys == MapsKeys(dict, order)
                  IN JoinLines([i \in 1..Len(keys) |->
                                  keys[i] \o ": " \o getValue(which, dict[keys[i]], h)],
                               "\n")]]

renderNonuniformTable(t, h, which, order) ==
    [schema |-> "", multiline |-> TRUE,
     cells |-> [p \in DOMAIN t.cells |->
                  LET dict == t.cells[p].JobResults
                      keys == SliceSort(MapsKeys(dict, order))
                  IN JoinLines([i \in 1..Len(keys) |->
                                  keys[i] \o ": " \o getValue(which, dict[keys[i]], h)],
                               "\n")]]

\* a render call, the maps iterated in the given order
Render(which, order) ==
    LET mode == renderTableHelper(table)
        text == IF mode = "simple" THEN renderSimpleTable(table, heap, which, order)
                ELSE IF mode = "uniformMulti"
                     THEN renderUniformMultiTable(table, heap, which, order)
                     ELSE renderNonuniformTable(table, heap, which, order)
        panics == \/ RenderHitsNil(table, mode)
                  \/ \E p \in DOMAIN table.cells : text.cells[p] = Panic
    IN /\ status = "running"
       /\ last' = Call(which, "", "", "", "", mode, <<>>)
       /\ status' = IF panics THEN "panicked" ELSE status
       /\ out' = IF panics THEN NoOutput ELSE text
       /\ UNCHANGED <<resources, built, table, heap, calls, result, traffic, writers, cluster>>

AddJobResultCall(in) ==
    LET m == Materialise(in, heap)
        fr == in.Job.FromKey
        to == in.Job.ToKey
        r == AddJobResult(Get(table, fr, to), m.jr)
    IN /\ status = "running"
       /\ calls < MaxCalls
       /\ calls' = calls + 1
       /\ table' = [table EXCEPT !.cells[<<fr, to>>] = r.item]
       /\ heap' = IF r.err THEN heap ELSE m.heap
       /\ last' = Call("AddJobResult", fr, to, JobResultKey(m.jr), "",
                       IF r.err THEN "error" ELSE "ok", <<>>)
       /\ UNCHANGED <<resources, built, status, out, result, traffic, writers, cluster>>

(* --------------------------- specification ---------------------------- *)

\* the resources the default tables are built over
ResourcesCases ==
    { [pods |-> <<"b", "a">>, ports |-> <<80>>, protocols |-> <<"TCP">>],
      [pods |-> <<"a">>, ports |-> <<80, 81>>, protocols |-> <<"TCP", "UDP">>] }

\* the ports the calls address: those of the resources and one no table is seeded with
PortInputs(r) == Range(r.ports) \cup {9999}

Init ==
    \E r \in ResourcesCases, ingress \in Connectivity, egress \in Connectivity :
        LET t == NewTableWithDefaultConnectivity(r, ingress, egress)
        IN /\ resources = r
           /\ built = [by |-> "NewTableWithDefaultConnectivity",
                       ingress |-> ingress, egress |-> egress]
           /\ table = t.Wrapped
           /\ heap = t.heap
           /\ status = "running"
           /\ calls = 0
           /\ last = NoCall
           /\ out = NoOutput
           /\ result = NoResult
           /\ traffic = NoTraffic
           /\ writers = NoWriters
           /\ cluster = NoCluster

SetEgressCall ==
    \E v \in Connectivity, from \in Range(table.items), to \in Range(table.items),
       port \in PortInputs(resources), proto \in Range(resources.protocols) :
        SetEgress(v, from, to, port, proto)

SetIngressCall ==
    \E v \in Connectivity, from \in Range(table.items), to \in Range(table.items),
       port \in PortInputs(resources), proto \in Range(resources.protocols) :
        SetIngress(v, from, to, port, proto)

Next == SetEgressCall \/ SetIngressCall

Spec == Init /\ [][Next]_vars

(* ------------- tables built from job results, and rendering ----------- *)

MaxJobs == 2

BuildResources == [pods |-> <<"b", "a">>, ports |-> <<80, 81>>, protocols |-> <<"TCP">>]

JobOf(fr, to, port) ==
    [FromKey |-> fr, ToKey |-> to, ResolvedPort |-> port, ResolvedPortName |-> "",
     Protocol |-> "TCP", TimeoutSeconds |-> 3]

\* the results of probes: no expected legs, the observed connectivity in Combined
ProbeResult(fr, to, port) ==
    [Job |-> JobOf(fr, to, port), Ingress |-> "nil", Egress |-> "nil",
     Combined |-> ConnectivityAllowed]

\* a job result seeded by hand with both legs and Combined undefined
Seeded(fr, to, port) ==
    [Job |-> JobOf(fr, to, port), Ingress |-> ConnectivityUndefined,
     Egress |-> ConnectivityUndefined, Combined |-> ConnectivityUndefined]

\* a job result with only one of its legs set
HalfSet(fr, to, port) ==
    [Job |-> JobOf(fr, to, port), Ingress |-> ConnectivityAllowed, Egress |-> "nil",
     Combined |-> ZeroConnectivity]

AddInputs ==
    {ProbeResult(p[1], p[2], port) : p \in {"a", "b"} \X {"a", "b"}, port \in {80, 81}}
    \cup {Seeded("a", "b", 80), HalfSet("a", "b", 80)}

ListInputs ==
    {ProbeResult("a", "a", 80), ProbeResult("a", "a", 81), ProbeResult("a", "b", 80),
     Seeded("a", "b", 81)}

JobResultLists == UNION {[1..n -> ListInputs] : n \in 0..MaxJobs}

\* the default tables the build and render specifications start from
DefaultCases ==
    {<<[pods |-> <<"b", "a">>, ports |-> <<80>>, protocols |-> <<"TCP">>],
       ConnectivityUndefined, ConnectivityUndefined>>,
     <<[pods |-> <<"b", "a">>, ports |-> <<80>>, protocols |-> <<"TCP">>],
       ConnectivityAllowed, ConnectivityBlocked>>}

InitDefault(cases) ==
    \E d \in cases :
        LET t == NewTableWithDefaultConnectivity(d[1], d[2], d[3])
        IN /\ resources = d[1]
           /\ built = [by |-> "NewTableWithDefaultConnectivity",
                       ingress |-> d[2], egress |-> d[3]]
           /\ table = t.Wrapped
           /\ heap = t.heap
           /\ status = "running"
           /\ calls = 0
           /\ last = NoCall
           /\ out = NoOutput
           /\ result = NoResult
           /\ traffic = NoTraffic
           /\ writers = NoWriters
           /\ cluster = NoCluster

InitFromJobResults ==
    \E jobResults \in JobResultLists :
        LET t == NewTableFromJobResults(BuildResources, jobResults)
        IN /\ resources = BuildResources
           /\ built = [by |-> "NewTableFromJobResults", jobResults |-> jobResults,
                       added |-> t.added]
           /\ table = t.table
           /\ heap = t.heap
           /\ status = t.status
           /\ calls = 0
           /\ last = NoCall
           /\ out = NoOutput
           /\ result = NoResult
           /\ traffic = NoTraffic
           /\ writers = NoWriters
           /\ cluster = NoCluster

InitBuild == InitDefault(DefaultCases) \/ InitFromJobResults

AddCall == \E in \in AddInputs : AddJobResultCall(in)

NextBuild == AddCall \/ SetEgressCall \/ SetIngressCall

\* tables from either constructor, filled by AddJobResult and mutated by the setters
SpecBuild == InitBuild /\ [][NextBuild]_vars

InitRender ==
    \/ InitDefault(DefaultCases \cup
                   {<<BuildResources, ConnectivityUndefined, ConnectivityUndefined>>})
    \/ InitFromJobResults

RenderTable == \E order \in IterationOrders(AllKeys(table)) : Render("RenderTable", order)

RenderIngress ==
    \E order \in IterationOrders(AllKeys(table)) : Render("RenderIngress", order)

RenderEgress == \E order \in IterationOrders(AllKeys(table)) : Render("RenderEgress", order)

NextRender == AddCall \/ RenderTable \/ RenderIngress \/ RenderEgress

\* tables from either constructor, filled by AddJobResult and rendered
SpecRender == InitRender /\ [][NextRender]_vars

(* ------------------- connectivity.Result: Passed, counts --------------- *)

\* the number of steps of a Result explored
MaxSteps == 2

\* one compared job: the Combined the simulation expects and the one the probe saw
ComparedJob(fr, to, proto, expected, observed) ==
    [from |-> fr, to |-> to, protocol |-> proto, expected |-> expected,
     observed |-> observed]

Correct(job) == job.expected = job.observed

\* a step passes when every compared job of its last comparison is correct, the
\* jobs of a pod to itself left out when loopback is ignored
ComparisonPassed(comparison, ignoreLoopback) ==
    \A job \in comparison : (ignoreLoopback /\ job.from = job.to) \/ Correct(job)

LastComparison(step) == step.comparisons[Len(step.comparisons)]

StepPassed(step, ignoreLoopback) == ComparisonPassed(LastComparison(step), ignoreLoopback)

\* the comparison's own counts: per success flag, per protocol met, the number of jobs
ComparisonResultsByProtocol(comparison) ==
    [b \in BOOLEAN |->
       [proto \in {job.protocol : job \in {j \in comparison : Correct(j) = b}} |->
          Cardinality({j \in comparison : Correct(j) = b /\ j.protocol = proto})]]

\* Result.Passed: the loop over the steps from step i on; examined is the number
\* of steps asked before it returned
RECURSIVE PassedFrom(_, _, _)
PassedFrom(steps, i, ignoreLoopback) ==
    IF i > Len(steps) THEN [passed |-> TRUE, examined |-> Len(steps)]
    ELSE IF ~StepPassed(steps[i], ignoreLoopback)
         THEN [passed |-> FALSE, examined |-> i]
         ELSE PassedFrom(steps, i + 1, ignoreLoopback)

PassedFlagInverted(r, ignoreLoopback) == PassedFrom(r.Steps, 1, ~ignoreLoopback)

PassedOfLastStep(r, ignoreLoopback) ==
    [passed |-> \/ Len(r.Steps) = 0
                \/ StepPassed(r.Steps[Len(r.Steps)], ignoreLoopback),
     examined |-> Len(r.Steps)]

Passed(r, ignoreLoopback) == PassedFrom(r.Steps, 1, ignoreLoopback)

\* m[k] of a map[v1.Protocol]int: zero when the key is absent
CountOf(m, proto) == IF proto \in DOMAIN m THEN m[proto] ELSE 0

AddCountOverwrite(counts, isSuccess, protocol, count) ==
    [counts EXCEPT ![isSuccess] =
       [q \in (DOMAIN counts[isSuccess]) \cup {protocol} |->
          IF q = protocol THEN count ELSE counts[isSuccess][q]]]

\* counts[isSuccess][protocol] += count
AddCount(counts, isSuccess, protocol, count) ==
    [counts EXCEPT ![isSuccess] =
       [q \in (DOMAIN counts[isSuccess]) \cup {protocol} |->
          IF q = protocol THEN CountOf(counts[isSuccess], protocol) + count
          ELSE counts[isSuccess][q]]]

\* the innermost loop, over the protocols still to add
RECURSIVE AddProtocolCounts(_, _, _, _)
AddProtocolCounts(counts, isSuccess, protocolCounts, todo) ==
    IF todo = {} THEN counts
    ELSE LET protocol == CHOOSE q \in todo : TRUE
         IN AddProtocolCounts(AddCount(counts, isSuccess, protocol,
                                       protocolCounts[protocol]),
                              isSuccess, protocolCounts, todo \ {protocol})

\* the loop over the success flags of one step's last comparison
AddComparison(counts, byProtocol) ==
    LET afterTrue == AddProtocolCounts(counts, TRUE, byProtocol[TRUE],
                                       DOMAIN byProtocol[TRUE])
    IN AddProtocolCounts(afterTrue, FALSE, byProtocol[FALSE], DOMAIN byProtocol[FALSE])

\* the loop over the steps from step i on
RECURSIVE AddSteps(_, _, _)
AddSteps(counts, steps, i) ==
    IF i > Len(steps) THEN counts
    ELSE AddSteps(AddComparison(counts,
                                ComparisonResultsByProtocol(LastComparison(steps[i]))),
                  steps, i + 1)

ResultsByProtocol(r) == AddSteps([b \in BOOLEAN |-> <<>>], r.Steps, 1)

\* the calls on a Result
PassedCall(ignoreLoopback) ==
    /\ last' = Call("Passed", "", "", "", ignoreLoopback, "ok", <<>>)
    /\ out' = Passed(result, ignoreLoopback)
    /\ UNCHANGED <<resources, built, table, heap, status, calls, result, traffic, writers,
                      cluster>>

ResultsByProtocolCall ==
    /\ last' = Call("ResultsByProtocol", "", "", "", "", "ok", <<>>)
    /\ out' = ResultsByProtocol(result)
    /\ UNCHANGED <<resources, built, table, heap, status, calls, result, traffic, writers,
                      cluster>>

\* the comparisons the steps are made of: every job correct; a self-pair the only
\* mismatch; two correct TCP jobs and one incorrect UDP job; no job at all
AllCorrect ==
    {ComparedJob("a", "a", "TCP", ConnectivityUndefined, ConnectivityUndefined),
     ComparedJob("a", "b", "TCP", ConnectivityAllowed, ConnectivityAllowed),
     ComparedJob("a", "b", "UDP", ConnectivityBlocked, ConnectivityBlocked)}

SelfMismatch ==
    {ComparedJob("a", "a", "TCP", ConnectivityUndefined, ConnectivityAllowed),
     ComparedJob("a", "b", "TCP", ConnectivityAllowed, ConnectivityAllowed)}

OneWrong ==
    {ComparedJob("a", "b", "TCP", ConnectivityAllowed, ConnectivityAllowed),
     ComparedJob("b", "a", "TCP", ConnectivityBlocked, ConnectivityBlocked),
     ComparedJob("a", "b", "UDP", ConnectivityAllowed, ConnectivityBlocked)}

ComparisonCases == {AllCorrect, SelfMismatch, OneWrong, {}}

\* a step holds the comparisons of its probes, the last one being the one that counts
StepCases ==
    {[comparisons |-> <<c>>] : c \in ComparisonCases}
    \cup {[comparisons |-> <<OneWrong, AllCorrect>>],
          [comparisons |-> <<AllCorrect, SelfMismatch>>]}

ResultCases == UNION {[1..n -> StepCases] : n \in 0..MaxSteps}

InitResult ==
    \E steps \in ResultCases :
        /\ result = [Steps |-> steps]
        /\ resources = [pods |-> <<>>, ports |-> <<>>, protocols |-> <<>>]
        /\ built = [by |-> "none"]
        /\ table = NewTable(<<>>)
        /\ heap = <<>>
        /\ status = "running"
        /\ calls = 0
        /\ last = NoCall
        /\ out = NoOutput
        /\ traffic = NoTraffic
        /\ writers = NoWriters
        /\ cluster = NoCluster

PassedIgnoringLoopback == PassedCall(TRUE)

PassedWithLoopback == PassedCall(FALSE)

NextResult == PassedIgnoringLoopback \/ PassedWithLoopback \/ ResultsByProtocolCall

\* a Result of some steps, asked whether it passed and for its counts
SpecResult == InitResult /\ [][NextResult]_vars

(* ------------------- matcher.Traffic: PrettyString -------------------- *)

\* the nil *Traffic, *TrafficPeer and *InternalPeer
NilTraffic == [nil |-> "Traffic"]

NilPeer == [nil |-> "TrafficPeer"]

NilInternal == [nil |-> "InternalPeer"]

\* labelsToStringSlim: "[k=v,...]", the keys sorted, a nil map having no keys
labelsToStringSlim(labels, order) ==
    LET keys == SliceSort(MapsKeys(labels, order))
    IN "[" \o Join([i \in 1..Len(keys) |-> keys[i] \o "=" \o labels[keys[i]]], ",") \o "]"

formatPeerNoWorkloadCheck(peer, order) ==
    IF peer.Internal = NilInternal THEN peer.IP
    ELSE peer.Internal.Workload

formatPeer(peer, order) ==
    IF peer.Internal = NilInternal THEN peer.IP
    ELSE IF peer.Internal.Workload # "" THEN peer.Internal.Workload
    ELSE peer.Internal.Namespace \o "/" \o labelsToStringSlim(peer.Internal.PodLabels, order)

PrettyString(t, order) ==
    IF t = NilTraffic THEN "<undefined>"
    ELSE IF t.Source = NilPeer \/ t.Destination = NilPeer THEN "<undefined>"
    ELSE formatPeer(t.Source, order) \o " -> " \o formatPeer(t.Destination, order)
         \o ":" \o ToString(t.ResolvedPort) \o " (" \o t.Protocol \o ")"

\* the label keys of the model, for the orders a map iteration can follow
LabelKeys == {"app", "pod"}

PrettyStringCall ==
    \E order \in IterationOrders(LabelKeys) :
        /\ last' = Call("PrettyString", "", "", "", "", "ok", <<>>)
        /\ out' = PrettyString(traffic, order)
        /\ UNCHANGED <<resources, built, table, heap, status, calls, result, traffic,
                       writers, cluster>>

\* formatPeer on the source or the destination of a traffic that has one
formatPeerCall(side) ==
    \E order \in IterationOrders(LabelKeys) :
        /\ traffic # NilTraffic
        /\ LET peer == IF side = "Source" THEN traffic.Source ELSE traffic.Destination
           IN /\ peer # NilPeer
              /\ last' = Call("formatPeer", side, "", "", "", "ok", <<>>)
              /\ out' = formatPeer(peer, order)
        /\ UNCHANGED <<resources, built, table, heap, status, calls, result, traffic,
                       writers, cluster>>

ExternalPeer == [Internal |-> NilInternal, IP |-> "192.168.1.9"]

WorkloadPeer ==
    [Internal |-> [Workload |-> "ns/deployment/web", Namespace |-> "ns",
                   PodLabels |-> [k \in {"app"} |-> "web"]],
     IP |-> "10.0.0.1"]

LabelledPeer ==
    [Internal |-> [Workload |-> "", Namespace |-> "ns",
                   PodLabels |-> [k \in {"pod", "app"} |->
                                    IF k = "pod" THEN "a" ELSE "web"]],
     IP |-> "10.0.0.2"]

UnlabelledPeer ==
    [Internal |-> [Workload |-> "", Namespace |-> "x", PodLabels |-> <<>>],
     IP |-> "10.0.0.3"]

PeerCases == {ExternalPeer, WorkloadPeer, LabelledPeer, UnlabelledPeer, NilPeer}

TrafficCases ==
    {NilTraffic}
    \cup {[Source |-> src, Destination |-> dst, ResolvedPort |-> port, ResolvedPortName |-> "",
           Protocol |-> "TCP"] : src \in PeerCases, dst \in PeerCases, port \in {80, 81}}

InitTraffic ==
    \E t \in TrafficCases :
        /\ traffic = t
        /\ built = [by |-> "CreateTraffic", traffic |-> t]
        /\ resources = [pods |-> <<>>, ports |-> <<>>, protocols |-> <<>>]
        /\ table = NewTable(<<>>)
        /\ heap = <<>>
        /\ status = "running"
        /\ calls = 0
        /\ last = NoCall
        /\ out = NoOutput
        /\ result = NoResult
        /\ writers = NoWriters
        /\ cluster = NoCluster

formatSource == formatPeerCall("Source")

formatDestination == formatPeerCall("Destination")

NextTraffic == PrettyStringCall \/ formatSource \/ formatDestination

\* a Traffic and the calls that render it
SpecTraffic == InitTraffic /\ [][NextTraffic]_vars

(* ------------- SetIngress / SetEgress called concurrently ------------- *)

\* the goroutines that call SetIngress / SetEgress on the one table
Writers == {"w1", "w2"}

\* the job result writer w addresses, and its address in the table
WriterKey(w) == Key(writers[w].proto, writers[w].port)

WriterTarget(w) == <<<<writers[w].from, writers[w].to>>, WriterKey(w)>>

WriterJobResult(w) == Get(table, writers[w].from, writers[w].to).JobResults[WriterKey(w)]

\* writer w takes a step: its place in the call moves to pc, and it is noted
\* whether another writer was inside its own call at that moment
Advance(w, pc) ==
    writers' = [writers EXCEPT ![w].pc = pc,
                               ![w].overlapped =
                                  \/ @
                                  \/ \E o \in Writers \ {w} :
                                        writers[o].pc \notin {"start", "done"}]

\* the lookup and the check that open SetIngress / SetEgress
WriterCheck(w) ==
    /\ status = "running"
    /\ writers[w].pc = "start"
    /\ IF Invalid(table, writers[w].from, writers[w].to, WriterKey(w))
       THEN /\ status' = "panicked"
            /\ Advance(w, "panicked")
       ELSE /\ Advance(w, "write")
            /\ UNCHANGED status
    /\ UNCHANGED <<resources, built, table, heap, calls, last, out, result, traffic, cluster>>

WriterWriteLegThroughPointer(w) ==
    LET jr == WriterJobResult(w)
    IN /\ status = "running"
       /\ writers[w].pc = "write"
       /\ heap' = IF writers[w].op = "SetIngress"
                  THEN [heap EXCEPT ![jr.Ingress] = writers[w].v]
                  ELSE [heap EXCEPT ![jr.Egress] = writers[w].v]
       /\ Advance(w, "ifBlocked")
       /\ UNCHANGED <<resources, built, table, status, calls, last, out, result, traffic,
                      cluster>>

\* jr.Ingress = &ingress, jr.Egress = &egress
WriterWriteLeg(w) ==
    LET jr == WriterJobResult(w)
        h1 == Append(heap, writers[w].v)
        jr1 == IF writers[w].op = "SetIngress"
               THEN [jr EXCEPT !.Ingress = Len(h1)]
               ELSE [jr EXCEPT !.Egress = Len(h1)]
    IN /\ status = "running"
       /\ writers[w].pc = "write"
       /\ heap' = h1
       /\ table' = PutJobResult(table, writers[w].from, writers[w].to, WriterKey(w), jr1)
       /\ Advance(w, "ifBlocked")
       /\ UNCHANGED <<resources, built, status, calls, last, out, result, traffic, cluster>>

\* setCombined, first condition: the legs are read
WriterIfBlocked(w) ==
    LET jr == WriterJobResult(w)
    IN /\ status = "running"
       /\ writers[w].pc = "ifBlocked"
       /\ IF heap[jr.Ingress] = ConnectivityBlocked \/ heap[jr.Egress] = ConnectivityBlocked
          THEN Advance(w, "setBlocked")
          ELSE Advance(w, "ifAllowed")
       /\ UNCHANGED <<resources, built, table, heap, status, calls, last, out, result,
                      traffic, cluster>>

\* jr.Combined = ConnectivityBlocked
WriterSetBlocked(w) ==
    /\ status = "running"
    /\ writers[w].pc = "setBlocked"
    /\ table' = PutJobResult(table, writers[w].from, writers[w].to, WriterKey(w),
                             [WriterJobResult(w) EXCEPT !.Combined = ConnectivityBlocked])
    /\ Advance(w, "ifAllowed")
    /\ UNCHANGED <<resources, built, heap, status, calls, last, out, result, traffic, cluster>>

\* setCombined, second condition: the legs are read again
WriterIfAllowed(w) ==
    LET jr == WriterJobResult(w)
    IN /\ status = "running"
       /\ writers[w].pc = "ifAllowed"
       /\ IF heap[jr.Ingress] = ConnectivityAllowed /\ heap[jr.Egress] = ConnectivityAllowed
          THEN Advance(w, "setAllowed")
          ELSE Advance(w, "done")
       /\ UNCHANGED <<resources, built, table, heap, status, calls, last, out, result,
                      traffic, cluster>>

\* jr.Combined = ConnectivityAllowed
WriterSetAllowed(w) ==
    /\ status = "running"
    /\ writers[w].pc = "setAllowed"
    /\ table' = PutJobResult(table, writers[w].from, writers[w].to, WriterKey(w),
                             [WriterJobResult(w) EXCEPT !.Combined = ConnectivityAllowed])
    /\ Advance(w, "done")
    /\ UNCHANGED <<resources, built, heap, status, calls, last, out, result, traffic, cluster>>

\* the calls the writers make: on the three job results of the default table over
\* pods a and b, and on a key it does not hold
WriterCalls ==
    {[op |-> op, v |-> v, from |-> x[1], to |-> x[2], port |-> x[3], proto |-> "TCP",
      pc |-> "start", overlapped |-> FALSE] :
       op \in {"SetIngress", "SetEgress"}, v \in Connectivity,
       x \in {<<"a", "b", 80>>, <<"b", "a", 80>>, <<"a", "a", 80>>, <<"a", "b", 9999>>}}

WriterDefaults ==
    {<<[pods |-> <<"b", "a">>, ports |-> <<80>>, protocols |-> <<"TCP">>],
       ConnectivityAllowed, ConnectivityBlocked>>,
     <<[pods |-> <<"b", "a">>, ports |-> <<80>>, protocols |-> <<"TCP">>],
       ConnectivityUndefined, ConnectivityAllowed>>}

InitWriters ==
    \E d \in WriterDefaults, ws \in [Writers -> WriterCalls] :
        LET t == NewTableWithDefaultConnectivity(d[1], d[2], d[3])
        IN /\ resources = d[1]
           /\ built = [by |-> "NewTableWithDefaultConnectivity",
                       ingress |-> d[2], egress |-> d[3]]
           /\ table = t.Wrapped
           /\ heap = t.heap
           /\ status = "running"
           /\ calls = 0
           /\ last = NoCall
           /\ out = NoOutput
           /\ result = NoResult
           /\ traffic = NoTraffic
           /\ writers = ws
           /\ cluster = NoCluster

Check == \E w \in Writers : WriterCheck(w)

WriteLeg == \E w \in Writers : WriterWriteLeg(w)

IfBlocked == \E w \in Writers : WriterIfBlocked(w)

SetBlocked == \E w \in Writers : WriterSetBlocked(w)

IfAllowed == \E w \in Writers : WriterIfAllowed(w)

SetAllowed == \E w \in Writers : WriterSetAllowed(w)

NextWriters == Check \/ WriteLeg \/ IfBlocked \/ SetBlocked \/ IfAllowed \/ SetAllowed

\* a default table and writers whose calls interleave step by step
SpecWriters == InitWriters /\ [][NextWriters]_vars

(* ------------ matcher.TrafficPeer: Translate, GetInternalPeerInfo ------ *)

\* A workload string is kept as the sequence of its pieces, each "/" or a run of
\* other characters; the empty string is the empty sequence.

\* strings.ToLower on a piece: the pieces of the model that hold capitals
Lower(piece) ==
    CASE piece = "NS" -> "ns"
      [] piece = "Pod" -> "pod"
      [] piece = "Web" -> "web"
      [] piece = "ReplicaSet" -> "replicaset"
      [] piece = "DaemonSet" -> "daemonset"
      [] piece = "Deployment" -> "deployment"
      [] OTHER -> piece

ToLower(s) == [i \in 1..Len(s) |-> Lower(s[i])]

\* strings.Split(s, "/") from piece i on, cur being the field read so far
RECURSIVE SplitFrom(_, _, _)
SplitFrom(s, i, cur) ==
    IF i > Len(s) THEN <<cur>>
    ELSE IF s[i] = "/" THEN <<cur>> \o SplitFrom(s, i + 1, "")
    ELSE SplitFrom(s, i + 1, cur \o s[i])

Split(s) == SplitFrom(s, 1, "")

\* a Go slice: nil, or its elements
NilSlice == [nil |-> TRUE, elems |-> <<>>]

Slice(elems) == [nil |-> FALSE, elems |-> elems]

\* append(slice, x): never nil
AppendSlice(slice, x) == Slice(Append(slice.elems, x))

WorkloadKinds == {"daemonset", "statefulset", "replicaset", "deployment", "pod"}

BadWorkloadNoEmptyCheck(workloadMetadata) ==
    \/ Len(workloadMetadata) # 3
    \/ workloadMetadata[2] \notin WorkloadKinds

\* the condition under which Translate logs "Bad Workload structure" and exits
BadWorkload(workloadMetadata) ==
    \/ Len(workloadMetadata) # 3
    \/ workloadMetadata[1] = "" \/ workloadMetadata[2] = "" \/ workloadMetadata[3] = ""
    \/ workloadMetadata[2] \notin WorkloadKinds

\* the owner and kind the loop of Translate finds for one pod, or how it ended
Owner(pod, workloadMetadata, c) ==
    LET refs == pod.OwnerReferences
        found(owner, kind) == [end |-> "ok", workloadOwner |-> owner, workloadKind |-> kind]
        ended(how) == [end |-> how, workloadOwner |-> "", workloadKind |-> ""]
    IN IF workloadMetadata[2] = "deployment" /\ ~refs.nil /\ Len(refs.elems) = 0
       THEN ended("panicked")
       ELSE IF workloadMetadata[2] = "deployment" /\ ~refs.nil
               /\ refs.elems[1].Kind = "ReplicaSet"
       THEN IF refs.elems[1].Name \notin DOMAIN c.replicaSets
            THEN ended("fatal")
            ELSE LET rs == c.replicaSets[refs.elems[1].Name]
                 IN IF rs.OwnerReferences.nil THEN found("", "")
                    ELSE IF Len(rs.OwnerReferences.elems) = 0 THEN ended("panicked")
                    ELSE found(rs.OwnerReferences.elems[1].Name, "deployment")
       ELSE IF workloadMetadata[2] \in {"daemonset", "statefulset", "replicaset"} /\ ~refs.nil
       THEN IF Len(refs.elems) = 0 THEN ended("panicked")
            ELSE found(refs.elems[1].Name, refs.elems[1].Kind)
       ELSE IF workloadMetadata[2] = "pod" THEN found(pod.Name, "pod")
       ELSE found("", "")

\* the loop over kubePods from pod i on, acc holding the pods found so far
RECURSIVE TranslateLoop(_, _, _, _, _)
TranslateLoop(kubePods, i, workloadMetadata, c, acc) ==
    IF i > Len(kubePods) THEN acc
    ELSE LET pod == kubePods[i]
             o == Owner(pod, workloadMetadata, c)
         IN IF o.end # "ok" THEN [acc EXCEPT !.end = o.end]
            ELSE IF Lower(o.workloadOwner) = workloadMetadata[3]
                    /\ Lower(o.workloadKind) = workloadMetadata[2]
            THEN TranslateLoop(kubePods, i + 1, workloadMetadata, c,
                               [end |-> "ok",
                                podsNetworking |-> AppendSlice(acc.podsNetworking,
                                                               [IP |-> pod.PodIP]),
                                podLabels |-> pod.Labels,
                                namespaceLabels |-> c.namespaces[workloadMetadata[1]],
                                workloadOwnerExists |-> TRUE])
            ELSE TranslateLoop(kubePods, i + 1, workloadMetadata, c, acc)

\* the InternalPeer a struct literal with only Workload builds
InternalPeer(workload) ==
    [Workload |-> workload, PodLabels |-> <<>>, NamespaceLabels |-> <<>>, Namespace |-> "",
     Pods |-> NilSlice]

\* what a call ends in: "ok" with the peer returned, "fatal" when the process was
\* exited by logrus.Fatalf or utils.DoOrDie, "panicked" on an index out of range
Ended(how) == [end |-> how, peer |-> NilPeer]

Returned(peer) == [end |-> "ok", peer |-> peer]

\* TrafficPeer.Translate against the cluster c
Translate(p, c) ==
    LET workloadMetadata == Split(ToLower(p.Internal.Workload))
    IN IF BadWorkload(workloadMetadata) THEN Ended("fatal")
       ELSE IF ~c.up THEN Ended("fatal")
       ELSE IF workloadMetadata[1] \notin DOMAIN c.namespaces THEN Ended("fatal")
       ELSE IF ~c.podsReadable THEN Ended("fatal")
       ELSE LET loop == TranslateLoop(c.pods[workloadMetadata[1]], 1, workloadMetadata, c,
                                      [end |-> "ok", podsNetworking |-> NilSlice,
                                       podLabels |-> <<>>, namespaceLabels |-> <<>>,
                                       workloadOwnerExists |-> FALSE])
            IN IF loop.end # "ok" THEN Ended(loop.end)
               ELSE IF ~loop.workloadOwnerExists
               THEN Returned([Internal |-> InternalPeer(<<>>), IP |-> ""])
               ELSE Returned([Internal |->
                                [Workload |-> p.Internal.Workload,
                                 PodLabels |-> loop.podLabels,
                                 NamespaceLabels |-> loop.namespaceLabels,
                                 Namespace |-> workloadMetadata[1],
                                 Pods |-> loop.podsNetworking],
                              IP |-> ""])

WorkloadStringToTrafficPeer(workloadString, c) ==
    Translate([Internal |-> InternalPeer(workloadString), IP |-> ""], c)

\* GetInternalPeerInfo: the peer returned (NilPeer for nil) and the length of Pods
\* at the moment Pods[0] was read, or "unread"
GetInternalPeerInfo(workload, c) ==
    IF workload = <<>> THEN [end |-> "ok", peer |-> NilPeer, read |-> "unread"]
    ELSE LET workloadInfo == WorkloadStringToTrafficPeer(workload, c)
             info == workloadInfo.peer.Internal
             copy == [Workload |-> info.Workload, PodLabels |-> info.PodLabels,
                      NamespaceLabels |-> info.NamespaceLabels,
                      Namespace |-> info.Namespace, Pods |-> NilSlice]
         IN IF workloadInfo.end # "ok"
            THEN [end |-> workloadInfo.end, peer |-> NilPeer, read |-> "unread"]
            ELSE IF info.Pods.nil
            THEN [end |-> "ok", peer |-> [Internal |-> copy, IP |-> ""], read |-> "unread"]
            ELSE IF Len(info.Pods.elems) = 0
            THEN [end |-> "panicked", peer |-> NilPeer, read |-> ToString(0)]
            ELSE [end |-> "ok", peer |-> [Internal |-> copy, IP |-> info.Pods.elems[1].IP],
                  read |-> ToString(Len(info.Pods.elems))]

\* the calls, on a workload string handed in
TranslateCall(workload) ==
    LET r == WorkloadStringToTrafficPeer(workload, cluster)
    IN /\ status = "running"
       /\ last' = Call("Translate", "", "", "", workload, r.end, <<>>)
       /\ out' = r.peer
       /\ status' = IF r.end = "ok" THEN status ELSE r.end
       /\ UNCHANGED <<resources, built, table, heap, calls, result, traffic, writers,
                      cluster>>

GetInternalPeerInfoCall(workload) ==
    LET r == GetInternalPeerInfo(workload, cluster)
    IN /\ status = "running"
       /\ last' = Call("GetInternalPeerInfo", "", "", "", workload, r.end, <<r.read>>)
       /\ out' = r.peer
       /\ status' = IF r.end = "ok" THEN status ELSE r.end
       /\ UNCHANGED <<resources, built, table, heap, calls, result, traffic, writers,
                      cluster>>

\* the workload strings handed in
WorkloadInputs ==
    {<<>>,
     <<"ns", "/", "pod", "/", "web">>,
     <<"NS", "/", "Pod", "/", "Web">>,
     <<"ns", "/", "Deployment", "/", "Web">>,
     <<"ns", "/", "deployment", "/", "gone">>,
     <<"ns", "/", "daemonset", "/", "web">>,
     <<"ns", "/", "replicaset", "/", "web-rs">>,
     <<"ns", "/", "statefulset", "/", "web">>,
     <<"ns", "/", "pod", "/", "gone">>,
     <<"other", "/", "pod", "/", "web">>,
     <<"ns", "/", "job", "/", "web">>,
     <<"ns", "/", "pod">>,
     <<"ns">>,
     <<"ns", "/", "pod", "/", "web", "/", "x">>,
     <<"ns", "/", "/", "web">>,
     <<"/", "pod", "/", "web">>,
     <<"ns", "/", "pod", "/">>}

KubePod(name, refs, ip) ==
    [Name |-> name, OwnerReferences |-> refs, Labels |-> [k \in {"app"} |-> name],
     PodIP |-> ip]

OwnedBy(kind, name) == Slice(<<[Kind |-> kind, Name |-> name]>>)

\* a pod of its own, two pods of the replica set of deployment Web, a daemon set pod
WebPods ==
    <<KubePod("Web", NilSlice, "10.0.0.1"),
      KubePod("web-1", OwnedBy("ReplicaSet", "web-rs"), "10.0.0.2"),
      KubePod("web-2", OwnedBy("ReplicaSet", "web-rs"), "10.0.0.3"),
      KubePod("web-3", OwnedBy("DaemonSet", "web"), "10.0.0.4")>>

KubeCluster(up, podsReadable, pods, replicaSets) ==
    [up |-> up, podsReadable |-> podsReadable,
     namespaces |-> [n \in {"ns"} |-> [k \in {"team"} |-> "a"]],
     pods |-> [n \in {"ns"} |-> pods],
     replicaSets |-> replicaSets]

WebReplicaSets == [n \in {"web-rs"} |-> [OwnerReferences |-> OwnedBy("Deployment", "Web")]]

\* the clusters: unreachable; pods unreadable; no pod; the web pods; the web pods
\* with a replica set that has no owner; a pod of a replica set that is gone; a pod
\* whose list of owners is empty but not nil
ClusterCases ==
    {KubeCluster(FALSE, TRUE, <<>>, <<>>),
     KubeCluster(TRUE, FALSE, WebPods, WebReplicaSets),
     KubeCluster(TRUE, TRUE, <<>>, <<>>),
     KubeCluster(TRUE, TRUE, WebPods, WebReplicaSets),
     KubeCluster(TRUE, TRUE, WebPods, [n \in {"web-rs"} |-> [OwnerReferences |-> NilSlice]]),
     KubeCluster(TRUE, TRUE, <<KubePod("web-1", OwnedBy("ReplicaSet", "lost"), "10.0.0.2")>>,
                 WebReplicaSets),
     KubeCluster(TRUE, TRUE, <<KubePod("web", Slice(<<>>), "10.0.0.5")>>, WebReplicaSets)}

InitTranslate ==
    \E c \in ClusterCases :
        /\ cluster = c
        /\ built = [by |-> "none"]
        /\ resources = [pods |-> <<>>, ports |-> <<>>, protocols |-> <<>>]
        /\ table = NewTable(<<>>)
        /\ heap = <<>>
        /\ status = "running"
        /\ calls = 0
        /\ last = NoCall
        /\ out = NoOutput
        /\ result = NoResult
        /\ traffic = NoTraffic
        /\ writers = NoWriters

TranslateWorkload == \E workload \in WorkloadInputs : TranslateCall(workload)

GetPeerInfo == \E workload \in WorkloadInputs : GetInternalPeerInfoCall(workload)

NextTranslate == TranslateWorkload \/ GetPeerInfo

\* a cluster and the calls that resolve workload strings against it
SpecTranslate == InitTranslate /\ [][NextTranslate]_vars

(* ------------------------------ properties ---------------------------- *)

SetOps == {"SetIngress", "SetEgress"}

RenderOps == {"RenderTable", "RenderIngress", "RenderEgress"}

\* the job results of a table, each named by its cell and its key
JobResultsOf(t) ==
    UNION {{<<p, k>> : k \in DOMAIN t.cells[p].JobResults} : p \in DOMAIN t.cells}

At(t, x) == t.cells[x[1]].JobResults[x[2]]

\* the job result the last call addressed
Target(t) == t.cells[<<last.from, last.to>>].JobResults[last.key]

\* the combination rule as the design states it: first match wins
Rule(ingress, egress, combined) ==
    IF ingress = ConnectivityBlocked \/ egress = ConnectivityBlocked
    THEN ConnectivityBlocked
    ELSE IF ingress = ConnectivityAllowed /\ egress = ConnectivityAllowed
         THEN ConnectivityAllowed
         ELSE combined

Unresolved(ingress, egress) ==
    /\ ingress # ConnectivityBlocked
    /\ egress # ConnectivityBlocked
    /\ ~(ingress = ConnectivityAllowed /\ egress = ConnectivityAllowed)

\* C1: in every state reached from NewTableWithDefaultConnectivity by SetIngress /
\* SetEgress calls, Combined is a function of the (Ingress, Egress) pair alone: two
\* job results with equal Ingress and equal Egress have equal Combined.
C1_CombinedPureFunction ==
    \A x \in JobResultsOf(table) : \A y \in JobResultsOf(table) :
        (/\ heap[At(table, x).Ingress] = heap[At(table, y).Ingress]
         /\ heap[At(table, x).Egress] = heap[At(table, y).Egress])
        => At(table, x).Combined = At(table, y).Combined

\* C2: denial is a veto: a job result whose Ingress or Egress is Blocked has
\* Combined Blocked, whatever the other leg is.
C2_DenialVeto ==
    \A x \in JobResultsOf(table) :
        (\/ heap[At(table, x).Ingress] = ConnectivityBlocked
         \/ heap[At(table, x).Egress] = ConnectivityBlocked)
        => At(table, x).Combined = ConnectivityBlocked

C2_Witness ==
    /\ last.op = "SetIngress"
    /\ last.outcome = "ok"
    /\ last.v = ConnectivityBlocked
    /\ last.before = <<ConnectivityAllowed, ConnectivityAllowed, ConnectivityAllowed>>
    /\ Values(Target(table), heap) =
          <<ConnectivityBlocked, ConnectivityAllowed, ConnectivityBlocked>>

\* C3: a job result whose Ingress and Egress are both Allowed has Combined Allowed,
\* also when Combined was Blocked before the last call.
C3_BothAllowed ==
    \A x \in JobResultsOf(table) :
        (/\ heap[At(table, x).Ingress] = ConnectivityAllowed
         /\ heap[At(table, x).Egress] = ConnectivityAllowed)
        => At(table, x).Combined = ConnectivityAllowed

C3_Witness ==
    /\ last.op = "SetEgress"
    /\ last.outcome = "ok"
    /\ last.before = <<ConnectivityAllowed, ConnectivityBlocked, ConnectivityBlocked>>
    /\ Values(Target(table), heap) =
          <<ConnectivityAllowed, ConnectivityAllowed, ConnectivityAllowed>>

\* C4: a SetIngress / SetEgress call that leaves the addressed job result with
\* neither leg Blocked and not both legs Allowed leaves its Combined as it was.
C4_UnresolvedKeepsCombined ==
    [][(last'.op \in SetOps /\ last'.outcome = "ok" /\ calls' = calls + 1) =>
          LET x == <<(<<last'.from, last'.to>>), last'.key>>
          IN Unresolved(heap'[At(table', x).Ingress], heap'[At(table', x).Egress])
             => At(table', x).Combined = At(table, x).Combined]_vars

\* SetIngress(Allowed) alone on a job result seeded (Undefined, Undefined, Undefined)
C4_Witness ==
    /\ last.op = "SetIngress"
    /\ last.outcome = "ok"
    /\ last.v = ConnectivityAllowed
    /\ last.before = <<ConnectivityUndefined, ConnectivityUndefined, ConnectivityUndefined>>
    /\ Values(Target(table), heap) =
          <<ConnectivityAllowed, ConnectivityUndefined, ConnectivityUndefined>>

\* C5: NewTableWithDefaultConnectivity builds, for every ordered pair of pod names
\* and every (protocol, port) of the resources, exactly one job result, under the key
\* "<protocol>/<port>"; off the diagonal its legs are the defaults, on the diagonal
\* both are Undefined.
C5_DefaultConstruction ==
    (calls = 0) =>
        LET pods == Range(resources.pods)
            combos == Range(resources.protocols) \X Range(resources.ports)
        IN /\ DOMAIN table.cells = pods \X pods
           /\ \A p \in pods \X pods :
                LET dict == table.cells[p].JobResults
                IN /\ DOMAIN dict = {Key(c[1], c[2]) : c \in combos}
                   /\ Cardinality(DOMAIN dict) = Cardinality(combos)
                   /\ \A c \in combos :
                        LET jr == dict[Key(c[1], c[2])]
                        IN /\ jr.Job.FromKey = p[1]
                           /\ jr.Job.ToKey = p[2]
                           /\ jr.Job.Protocol = c[1]
                           /\ jr.Job.ResolvedPort = c[2]
                           /\ p[1] # p[2] => /\ heap[jr.Ingress] = built.ingress
                                             /\ heap[jr.Egress] = built.egress
                           /\ p[1] = p[2] => /\ heap[jr.Ingress] = ConnectivityUndefined
                                             /\ heap[jr.Egress] = ConnectivityUndefined

C5_Witness ==
    /\ calls = 0
    /\ built.ingress = ConnectivityAllowed
    /\ built.egress = ConnectivityBlocked
    /\ Len(table.items) = 2
    /\ heap[table.cells[<<"a", "a">>].JobResults["TCP/80"].Ingress] = ConnectivityUndefined
    /\ heap[table.cells[<<"a", "b">>].JobResults["TCP/80"].Egress] = ConnectivityBlocked

\* C6: a successful SetEgress (SetIngress) changes only the addressed job result:
\* the named leg becomes the value, the other leg keeps its value, Combined is
\* recomputed by the rule, and every other job result keeps all three values.
C6_SetChangesOnlyTarget ==
    [][(last'.op \in SetOps /\ last'.outcome = "ok" /\ calls' = calls + 1) =>
          LET x == <<(<<last'.from, last'.to>>), last'.key>>
              old == At(table, x)
              new == At(table', x)
          IN /\ JobResultsOf(table') = JobResultsOf(table)
             /\ last'.op = "SetEgress" => /\ heap'[new.Egress] = last'.v
                                          /\ heap'[new.Ingress] = heap[old.Ingress]
             /\ last'.op = "SetIngress" => /\ heap'[new.Ingress] = last'.v
                                           /\ heap'[new.Egress] = heap[old.Egress]
             /\ new.Combined = Rule(heap'[new.Ingress], heap'[new.Egress], old.Combined)
             /\ new.Job = old.Job
             /\ \A y \in JobResultsOf(table) \ {x} :
                   /\ At(table', y).Job = At(table, y).Job
                   /\ At(table', y).Combined = At(table, y).Combined
                   /\ heap'[At(table', y).Ingress] = heap[At(table, y).Ingress]
                   /\ heap'[At(table', y).Egress] = heap[At(table, y).Egress]]_vars

\* SetEgress on a self-pair, whose two legs were seeded from the one local c
C6_Witness ==
    /\ last.op = "SetEgress"
    /\ last.outcome = "ok"
    /\ last.from = last.to
    /\ last.v = ConnectivityAllowed
    /\ heap[Target(table).Ingress] = ConnectivityUndefined
    /\ heap[Target(table).Egress] = ConnectivityAllowed

\* C7: SetIngress / SetEgress addressed to a key absent from the cell, or to a job
\* result with a nil Ingress or Egress, panics, modifies no job result before it
\* does, and nothing runs after the panic.
C7_InvalidTargetPanics ==
    [][/\ status = "running"
       /\ (last'.op \in SetOps /\ calls' = calls + 1) =>
             LET dict == table.cells[<<last'.from, last'.to>>].JobResults
                 k == last'.key
             IN (k \notin DOMAIN dict \/ dict[k].Ingress = Nil \/ dict[k].Egress = Nil)
                => /\ status' = "panicked"
                   /\ last'.outcome = "panic"
                   /\ table' = table
                   /\ \A a \in DOMAIN heap : heap'[a] = heap[a]]_vars

\* SetEgress on a job result whose Ingress is set and whose Egress is nil
C7_Witness ==
    /\ last.op = "SetEgress"
    /\ last.outcome = "panic"
    /\ status = "panicked"
    /\ last.key \in DOMAIN table.cells[<<last.from, last.to>>].JobResults
    /\ Target(table).Ingress # Nil
    /\ Target(table).Egress = Nil

\* the first index of the list whose (from, to, key) repeats an earlier one, 0 if none
FirstDuplicate(jobResults) ==
    LET same(i, j) == /\ jobResults[i].Job.FromKey = jobResults[j].Job.FromKey
                      /\ jobResults[i].Job.ToKey = jobResults[j].Job.ToKey
                      /\ Key(jobResults[i].Job.Protocol, jobResults[i].Job.ResolvedPort)
                            = Key(jobResults[j].Job.Protocol, jobResults[j].Job.ResolvedPort)
        dups == {i \in 1..Len(jobResults) : \E j \in 1..(i - 1) : same(i, j)}
    IN IF dups = {} THEN 0 ELSE CHOOSE i \in dups : \A j \in dups : i <= j

\* C8: AddJobResult returns an error and leaves the item as it is when the key is
\* already there, and otherwise stores the job result under its key with no error;
\* NewTableFromJobResults dies on the first job result that repeats an earlier
\* (from, to, key).
C8_DuplicateKeys ==
    /\ [](built.by = "NewTableFromJobResults" =>
             LET d == FirstDuplicate(built.jobResults)
             IN IF d = 0
                THEN status # "fatal" /\ built.added = Len(built.jobResults)
                ELSE status = "fatal" /\ built.added = d - 1)
    /\ [][(last'.op = "AddJobResult" /\ calls' = calls + 1) =>
             LET p == <<last'.from, last'.to>>
                 k == last'.key
                 old == table.cells[p].JobResults
                 new == table'.cells[p].JobResults
             IN /\ \A q \in DOMAIN table.cells \ {p} : table'.cells[q] = table.cells[q]
                /\ DOMAIN table'.cells = DOMAIN table.cells
                /\ IF k \in DOMAIN old
                   THEN last'.outcome = "error" /\ new = old
                   ELSE /\ last'.outcome = "ok"
                        /\ DOMAIN new = DOMAIN old \cup {k}
                        /\ \A j \in DOMAIN old : new[j] = old[j]
                        /\ Key(new[k].Job.Protocol, new[k].Job.ResolvedPort) = k]_vars

\* a duplicate AddJobResult on a table NewTableFromJobResults filled
C8_Witness ==
    /\ built.by = "NewTableFromJobResults"
    /\ built.added >= 1
    /\ last.op = "AddJobResult"
    /\ last.outcome = "error"
    /\ last.key \in DOMAIN table.cells[<<last.from, last.to>>].JobResults

SameKeys(t) ==
    \A p \in DOMAIN t.cells : \A q \in DOMAIN t.cells :
        DOMAIN t.cells[p].JobResults = DOMAIN t.cells[q].JobResults

\* C9: a table in which two cells have different key sets is rendered by the
\* non-uniform render.
C9_NonUniformRender ==
    (last.op \in RenderOps /\ ~SameKeys(table)) => last.outcome = "nonuniform"

\* C10: a table whose cells all have the same key set is rendered simple iff that
\* key set has exactly one element and uniform-multi otherwise; the simple render
\* is never selected when some cell has not exactly one job result or two cells
\* have different keys.
C10_UniformRender ==
    last.op \in RenderOps =>
        /\ SameKeys(table) =>
              \A p \in DOMAIN table.cells :
                 IF Cardinality(DOMAIN table.cells[p].JobResults) = 1
                 THEN last.outcome = "simple"
                 ELSE last.outcome = "uniformMulti"
        /\ last.outcome = "simple" =>
              /\ SameKeys(table)
              /\ \A p \in DOMAIN table.cells :
                    Cardinality(DOMAIN table.cells[p].JobResults) = 1

C10_Witness ==
    /\ last.op = "RenderTable"
    /\ last.outcome = "uniformMulti"
    /\ SameKeys(table)
    /\ DOMAIN table.cells[<<"a", "b">>].JobResults = {"TCP/80", "TCP/81"}

(* ------------------------------- C11 ---------------------------------- *)

\* the Job identity the constructor stores under key k of cell (fr, to)
ConstructedJob(r, fr, to, proto, port) ==
    [FromKey |-> fr, ToKey |-> to, ResolvedPort |-> port, ResolvedPortName |-> "",
     Protocol |-> proto, TimeoutSeconds |-> 3]

\* C11: on a table built by NewTableWithDefaultConnectivity, whatever calls of
\* SetIngress/SetEgress were made and whether they returned or panicked, the cells
\* are the pod pairs, every cell holds exactly one job result per protocol and port
\* of the resources, and the job under each key is the one stored at construction.
C11_ShapeFixed ==
    built.by = "NewTableWithDefaultConnectivity" =>
      /\ table.items = SortedPodNames(resources)
      /\ DOMAIN table.cells = Range(resources.pods) \X Range(resources.pods)
      /\ \A p \in Range(resources.pods) \X Range(resources.pods) :
           /\ table.cells[p].From = p[1]
           /\ table.cells[p].To = p[2]
           /\ DOMAIN table.cells[p].JobResults =
                {Key(proto, port) : proto \in Range(resources.protocols),
                                    port \in Range(resources.ports)}
           /\ \A proto \in Range(resources.protocols), port \in Range(resources.ports) :
                table.cells[p].JobResults[Key(proto, port)].Job =
                  ConstructedJob(resources, p[1], p[2], proto, port)

\* a successful call followed by a panicking one
C11_Witness ==
    /\ built.by = "NewTableWithDefaultConnectivity"
    /\ calls = 2
    /\ status = "panicked"
    /\ last.outcome = "panic"

(* ------------------------------- C18 ---------------------------------- *)

\* C18: right after NewTableWithDefaultConnectivity, whatever the defaults, the
\* Combined of every job result is Allowed, Blocked or Undefined, and the Combined
\* of every self-pair job result is Undefined.
C18_FreshCombinedSet ==
    (built.by = "NewTableWithDefaultConnectivity" /\ calls = 0) =>
      \A x \in JobResultsOf(table) :
        /\ At(table, x).Combined \in Connectivity
        /\ x[1][1] = x[1][2] => At(table, x).Combined = ConnectivityUndefined

(* ------------------------------- C19 ---------------------------------- *)

\* the (Ingress, Egress, Combined) values of job result jr after the two calls
\* first and then second
AfterBoth(jr, h, first, second) ==
    LET one == SetLeg(jr, h, first[1], first[2])
        two == SetLeg(one.jr, one.heap, second[1], second[2])
    IN Values(two.jr, two.heap)

\* C19: for every job result of a reachable table and all values x and y,
\* SetIngress(x) followed by SetEgress(y) leaves the same Ingress, Egress and
\* Combined as SetEgress(y) followed by SetIngress(x).
C19_LegOrderIndependent ==
    \A t \in JobResultsOf(table), x \in Connectivity, y \in Connectivity :
      LET jr == At(table, t)
      IN (jr.Ingress # Nil /\ jr.Egress # Nil) =>
           AfterBoth(jr, heap, <<"SetIngress", x>>, <<"SetEgress", y>>) =
             AfterBoth(jr, heap, <<"SetEgress", y>>, <<"SetIngress", x>>)

(* ------------------------------- C20 ---------------------------------- *)

\* C20: when a table just built by one of the constructors is rendered and the
\* dispatch selects the uniform-multi render, every key of the first cell (row-major)
\* is a key of every cell, and the render does not die on a missing job result.
C20_UniformMultiFindsEveryKey ==
    (last.op \in RenderOps /\ last.outcome = "uniformMulti" /\ calls = 0) =>
      /\ \A p \in DOMAIN table.cells :
           DOMAIN Get(table, Keys(table)[1].From, Keys(table)[1].To).JobResults
             \subseteq DOMAIN table.cells[p].JobResults
      /\ status # "panicked"

(* ------------------------------- C16 ---------------------------------- *)

\* the i-th key of S in ascending string order: the one with i - 1 keys below it
NthKey(S, i) == CHOOSE k \in S : Cardinality({j \in S : LexRank(j) < LexRank(k)}) = i - 1

Ascending(S) == [i \in 1..Cardinality(S) |-> NthKey(S, i)]

FirstCell(t) == Get(t, Keys(t)[1].From, Keys(t)[1].To).JobResults

\* C16: a render that returns has, in the non-uniform mode, for every cell one
\* "key: value" line per key of that cell, the keys ascending; in the uniform-multi
\* mode the ascending keys of the first cell as the schema and, for every cell, its
\* values under those keys in that order joined by spaces.  The text is the same
\* whatever order the maps were iterated in.
C16_RenderedInKeyOrder ==
    (last.op \in RenderOps /\ status = "running") =>
      /\ last.outcome = "nonuniform" =>
           /\ out.schema = ""
           /\ \A p \in DOMAIN table.cells :
                LET dict == table.cells[p].JobResults
                    keys == Ascending(DOMAIN dict)
                IN out.cells[p] =
                     Join([i \in 1..Len(keys) |->
                             keys[i] \o ": " \o getValue(last.op, dict[keys[i]], heap)],
                          "\n")
      /\ last.outcome = "uniformMulti" =>
           LET keys == Ascending(DOMAIN FirstCell(table))
           IN /\ out.schema = Join(keys, "\n")
              /\ \A p \in DOMAIN table.cells :
                   out.cells[p] =
                     Join([i \in 1..Len(keys) |->
                             getValue(last.op, table.cells[p].JobResults[keys[i]], heap)],
                          " ")

\* a non-uniform render that returned, of a table with a cell of two keys
C16_Witness ==
    /\ last.op \in RenderOps
    /\ status = "running"
    /\ last.outcome = "nonuniform"
    /\ \E p \in DOMAIN table.cells : Cardinality(DOMAIN table.cells[p].JobResults) = 2
    /\ \E p \in DOMAIN table.cells : out.cells[p] = "TCP/80: .\nTCP/81: ."

(* ------------------------------- C12 ---------------------------------- *)

FailingSteps(r, ignoreLoopback) ==
    {i \in 1..Len(r.Steps) : ~StepPassed(r.Steps[i], ignoreLoopback)}

\* C12: Passed(ignoreLoopback) is true exactly when every step passes with that
\* flag, so it is true of a Result without steps; it returns at the first step that
\* fails, without asking the steps after it.
C12_PassedIffEveryStep ==
    last.op = "Passed" =>
      LET failing == FailingSteps(result, last.v)
      IN /\ out.passed = (failing = {})
         /\ failing # {} => \A i \in failing : out.examined <= i
         /\ failing # {} => out.examined \in failing
         /\ Len(result.Steps) = 0 => out.passed

\* a Result whose first step fails and whose second passes
C12_Witness ==
    /\ last.op = "Passed"
    /\ Len(result.Steps) = 2
    /\ ~out.passed
    /\ out.examined = 1
    /\ StepPassed(result.Steps[2], last.v)

(* ------------------------------- C13 ---------------------------------- *)

Mismatches(r) ==
    UNION {{job \in LastComparison(r.Steps[i]) : ~Correct(job)} : i \in 1..Len(r.Steps)}

\* C13: when the only mismatching jobs are jobs of a pod to itself, Passed(true) is
\* true and Passed(false) is false; a mismatch between two different pods makes
\* both false; and whenever Passed(false) is true, so is Passed(true).
C13_LoopbackIgnored ==
    last.op = "Passed" =>
      /\ (Mismatches(result) # {} /\ \A job \in Mismatches(result) : job.from = job.to)
           => out.passed = last.v
      /\ (\E job \in Mismatches(result) : job.from # job.to) => ~out.passed
      /\ (~last.v /\ out.passed) => Passed(result, TRUE).passed

\* a self-pair is the only mismatch and loopback is ignored
C13_Witness ==
    /\ last.op = "Passed"
    /\ last.v
    /\ out.passed
    /\ \E job \in Mismatches(result) : job.from = job.to

(* ------------------------------- C14 ---------------------------------- *)

Protocols == {"TCP", "UDP", "SCTP"}

RECURSIVE SumOverSteps(_, _, _, _)
SumOverSteps(steps, i, b, proto) ==
    IF i > Len(steps) THEN 0
    ELSE CountOf(ComparisonResultsByProtocol(LastComparison(steps[i]))[b], proto)
         + SumOverSteps(steps, i + 1, b, proto)

\* C14: ResultsByProtocol returns a map with both flags; for each flag and protocol
\* the count is the sum over the steps of the count of the step's last comparison,
\* and all counts together are the number of jobs of the steps' last comparisons.
C14_CountsSumOverSteps ==
    last.op = "ResultsByProtocol" =>
      /\ DOMAIN out = BOOLEAN
      /\ \A b \in BOOLEAN :
           /\ DOMAIN out[b] \subseteq Protocols
           /\ \A proto \in Protocols :
                CountOf(out[b], proto) = SumOverSteps(result.Steps, 1, b, proto)
      /\ Cardinality({<<i, job>> \in (1..Len(result.Steps)) \X UNION ComparisonCases :
                        job \in LastComparison(result.Steps[i])})
           = CountOf(out[TRUE], "TCP") + CountOf(out[TRUE], "UDP")
             + CountOf(out[TRUE], "SCTP") + CountOf(out[FALSE], "TCP")
             + CountOf(out[FALSE], "UDP") + CountOf(out[FALSE], "SCTP")

\* two steps counted together, the first with an earlier comparison that is left
\* out; the second has two correct TCP jobs and one incorrect UDP job
C14_Witness ==
    /\ last.op = "ResultsByProtocol"
    /\ Len(result.Steps) = 2
    /\ result.Steps[1].comparisons = <<OneWrong, AllCorrect>>
    /\ LastComparison(result.Steps[2]) = OneWrong
    /\ out[TRUE]["TCP"] = 4
    /\ out[FALSE]["UDP"] = 1

(* ------------------------------- C15 ---------------------------------- *)

\* the peer the last formatPeer call was given
FormattedPeer == IF last.from = "Source" THEN traffic.Source ELSE traffic.Destination

\* C15: formatPeer returns the IP of a peer without Internal, the workload of an
\* internal peer that has one, and "<namespace>/[k=v,...]" with the label keys
\* ascending otherwise; PrettyString returns "<undefined>" for a nil Traffic and for
\* a nil Source or Destination; and the Traffic is after every call what it was when
\* it was created.
C15_PeerRendering ==
    /\ traffic = built.traffic
    /\ last.op = "formatPeer" =>
         LET peer == FormattedPeer
         IN IF peer.Internal = NilInternal THEN out = peer.IP
            ELSE IF peer.Internal.Workload # "" THEN out = peer.Internal.Workload
            ELSE LET labels == peer.Internal.PodLabels
                     keys == Ascending(DOMAIN labels)
                 IN out = peer.Internal.Namespace \o "/[" \o
                          Join([i \in 1..Len(keys) |-> keys[i] \o "=" \o labels[keys[i]]],
                               ",") \o "]"
    /\ last.op = "PrettyString" =>
         ((\/ traffic = NilTraffic
           \/ traffic.Source = NilPeer
           \/ traffic.Destination = NilPeer) => out = "<undefined>")

\* an internal peer without workload and with two labels has been formatted
C15_Witness ==
    /\ last.op = "formatPeer"
    /\ FormattedPeer = LabelledPeer
    /\ out = "ns/[app=web,pod=a]"

(* ------------------------------- C17 ---------------------------------- *)

\* the table and heap after the calls of the writers in ws, one after another
RECURSIVE RunCalls(_, _, _, _)
RunCalls(t, h, ws, i) ==
    IF i > Len(ws) THEN [table |-> t, heap |-> h]
    ELSE LET c == writers[ws[i]]
             k == Key(c.proto, c.port)
             r == SetLeg(Get(t, c.from, c.to).JobResults[k], h, c.op, c.v)
         IN RunCalls(PutJobResult(t, c.from, c.to, k, r.jr), r.heap, ws, i + 1)

\* the values of every job result of a table
ValuesOf(t, h) == [x \in JobResultsOf(t) |-> Values(At(t, x), h)]

AllDone == \A w \in Writers : writers[w].pc = "done"

DistinctTargets == \A w, o \in Writers : w # o => WriterTarget(w) # WriterTarget(o)

\* the states the calls of the writers leave when run one after another, in any order
SequentialOutcomes ==
    LET t0 == NewTableWithDefaultConnectivity(resources, built.ingress, built.egress)
    IN {ValuesOf(RunCalls(t0.Wrapped, t0.heap, ws, 1).table,
                 RunCalls(t0.Wrapped, t0.heap, ws, 1).heap) :
          ws \in IterationOrders(Writers)}

\* C17: when no two writers address the same job result, every interleaving of the
\* steps of their calls that runs to the end leaves every job result with the
\* values that the calls leave when run one after another (in whichever order).
C17_DisjointWritersSerial ==
    (AllDone /\ DistinctTargets) =>
      /\ \A o \in SequentialOutcomes : ValuesOf(table, heap) = o
      /\ C11_ShapeFixed

\* two writers on different job results whose calls overlapped and both wrote
C17_Witness ==
    /\ AllDone
    /\ DistinctTargets
    /\ \A w \in Writers : writers[w].overlapped
    /\ \E w \in Writers : WriterJobResult(w).Combined = ConnectivityAllowed
    /\ \E w \in Writers : WriterJobResult(w).Combined = ConnectivityBlocked

\* two writers on the same job result: nothing keeps their steps apart, and the
\* interleaved calls can end in values that no sequential run ends in
SameTargetRace ==
    /\ AllDone
    /\ ~DistinctTargets
    /\ ValuesOf(table, heap) \notin SequentialOutcomes

(* ------------------------------- C21 ---------------------------------- *)

\* the lower-cased workload string has three non-empty fields, the second a kind
WellFormed(workload) ==
    LET fields == Split(ToLower(workload))
    IN /\ Len(fields) = 3
       /\ \A i \in 1..3 : fields[i] # ""
       /\ fields[2] \in WorkloadKinds

\* the pods of the workload's namespace that the workload matches, in list order
MatchingPods(workload, c) ==
    LET fields == Split(ToLower(workload))
        o(pod) == Owner(pod, fields, c)
    IN SelectSeq(c.pods[fields[1]],
                 LAMBDA pod : /\ Lower(o(pod).workloadOwner) = fields[3]
                              /\ Lower(o(pod).workloadKind) = fields[2])

\* C21: Translate ends the process unless the workload string is well formed; a
\* Translate that returns gives, when no pod matches, a peer with empty Workload and
\* no Pods and, when some pod matches, a peer with the workload string as it was
\* handed in and one Pods entry per matching pod; GetInternalPeerInfo returns nil
\* exactly for the empty workload string and reads Pods[0] only of a list that has
\* an element.
C21_WorkloadResolution ==
    /\ last.op = "Translate" =>
         /\ ~WellFormed(last.v) => (status = "fatal" /\ last.outcome = "fatal")
         /\ last.outcome = "ok" =>
              LET matching == MatchingPods(last.v, cluster)
              IN IF Len(matching) = 0
                 THEN /\ out.Internal.Workload = <<>>
                      /\ out.Internal.Pods = NilSlice
                 ELSE /\ out.Internal.Workload = last.v
                      /\ ~out.Internal.Pods.nil
                      /\ out.Internal.Pods.elems =
                           [i \in 1..Len(matching) |-> [IP |-> matching[i].PodIP]]
    /\ last.op = "GetInternalPeerInfo" =>
         /\ last.outcome = "ok" => ((out = NilPeer) <=> (last.v = <<>>))
         /\ last.before # <<"unread">> =>
              /\ last.before # <<ToString(0)>>
              /\ last.outcome = "ok"
              /\ out.IP = Translate([Internal |-> InternalPeer(last.v), IP |-> ""],
                                    cluster).peer.Internal.Pods.elems[1].IP

\* a workload written with capitals that two pods match
C21_Witness ==
    /\ last.op = "Translate"
    /\ last.v = <<"ns", "/", "Deployment", "/", "Web">>
    /\ last.outcome = "ok"
    /\ Len(out.Internal.Pods.elems) = 2

====
